---- MODULE Spec2Model ----
(***************************************************************************)
(* Session-acquisition guard of useConversation (packages/vue/src/index.ts) *)
(* as a state machine.  JavaScript runs one synchronous block at a time:   *)
(* every action below is one such block, i.e. a call's synchronous         *)
(* prologue or the continuation of one await.  Continuations are run from  *)
(* a FIFO microtask queue; the reactions of a promise are queued in the    *)
(* order in which they were registered.                                    *)
(***************************************************************************)
EXTENDS Integers, Sequences, FiniteSets, TLC

\* Number of calls of the composable's operations explored, together.
MaxCalls == 4

\* null of conversationRef / lockRef
NoHandle == 0

\* Number of connections useScribe creates, and of committed segments kept.
MaxConnections == 3
MaxSegments == 2

\* null of connectionRef
NoConnection == 0

VARIABLES
    conversationRef,  \* installed handle, or NoHandle
    lockRef,          \* pending start promise, or NoHandle
    shouldEndRef,     \* cancellation flag
    startPromise,     \* startPromise[p]: "pending" | "resolved" | "rejected"
    handles,          \* handles[p]: the handle promise p resolves with
    thenQ,            \* thenQ[p]: reactions registered on start promise p
    closeQ,           \* closeQ[h]: continuations awaiting the close of h
    microtasks,       \* FIFO queue of continuations ready to run
    begins,           \* one record per startSession() call
    ends,             \* one record per endSession() call
    unmount,          \* the onUnmounted hook: has it run, what it captured
    micMuted,         \* controlled field: "undefined" | "true" | "false"
    micMutedSeen,     \* the value the micMuted watcher has last seen
    volume,           \* controlled field: "undefined" | a volume
    nSets,            \* writes of micMuted, setVolume() calls and sends so far
    lastSend,         \* what the last passthrough send did
    requestedVolume,  \* the volume most recently requested by the caller
    connectionRef,    \* useScribe: the installed connection, or NoConnection
    status,           \* useScribe: "disconnected" | "connecting" |
                      \*   "connected" | "transcribing" | "error"
    partialTranscript,    \* useScribe: text of the partial transcript
    committedTranscripts, \* useScribe: the committed segments, oldest first
    error,            \* useScribe: "null" or the last error message
    connections,      \* the connections created so far, by id
    lastScribeCall,   \* what the last call of a useScribe method did
    scribeUnmounted   \* has the onUnmounted hook of useScribe run

\* the controlled fields and the passthrough operations
fieldVars == <<micMuted, micMutedSeen, volume, nSets, lastSend,
               requestedVolume>>

\* the state of useScribe and of the connections it created
scribeVars == <<connectionRef, status, partialTranscript, committedTranscripts,
                error, connections, lastScribeCall, scribeUnmounted>>

\* the state of useConversation's session guard
sessionVars == <<conversationRef, lockRef, shouldEndRef, startPromise, handles,
                 thenQ, closeQ, microtasks, begins, ends, unmount>>

vars == <<conversationRef, lockRef, shouldEndRef, startPromise, handles,
          thenQ, closeQ, microtasks, begins, ends, unmount, micMuted,
          micMutedSeen, volume, nSets, lastSend, requestedVolume,
          connectionRef, status, partialTranscript, committedTranscripts,
          error, connections, lastScribeCall, scribeUnmounted>>

Promises == 1..Len(startPromise)
BeginIds == 1..Len(begins)
EndIds == 1..Len(ends)

BeginTask(i) == [kind |-> "begin", id |-> i]
EndTask(j) == [kind |-> "end", id |-> j]
UnmountTask == [kind |-> "unmount", id |-> 0]
WatchTask == [kind |-> "watch", id |-> 0]

\* another call may still be made
MoreCalls == Len(begins) + Len(ends) + nSets < MaxCalls

(***************************************************************************)
(* The session handle of the client library.                               *)
(***************************************************************************)
\* handle.isOpen()
IsOpen(h) == handles[h].state = "open"

\* handle.getId(): the handle of promise p carries the id p
GetId(h) == h

\* handle.endSession() is invoked: the call is counted, an open handle
\* starts closing, a closing or closed handle is left as it is
HandleEndSession(H, h) ==
    [H EXCEPT ![h].state = IF @ = "open" THEN "closing" ELSE @,
              ![h].endCalls = @ + 1]

\* handle.setMicMuted(v) / handle.setVolume({volume: v}) is invoked
HandleSet(H, h, op, v) == [H EXCEPT ![h].calls = Append(@, <<op, v>>)]

(***************************************************************************)
(* await                                                                   *)
(***************************************************************************)
\* await of start promise p by continuation t: a reaction on a pending
\* promise, a queued microtask on a settled one
ThenQAwait(p, t) ==
    IF startPromise[p] = "pending" THEN [thenQ EXCEPT ![p] = Append(@, t)]
    ELSE thenQ

MicroAwait(mq, p, t) ==
    IF startPromise[p] = "pending" THEN mq ELSE Append(mq, t)

\* await of the promise handle.endSession() returned; H is the handle table
\* after the call.  The promise is fulfilled when the handle is closed.
CloseQAwait(H, h, t) ==
    IF H[h].state = "closed" THEN closeQ ELSE [closeQ EXCEPT ![h] = Append(@, t)]

MicroAwaitClose(mq, H, h, t) ==
    IF H[h].state = "closed" THEN Append(mq, t) ELSE mq

(***************************************************************************)
(* History kept for the properties (not read by the program).              *)
(***************************************************************************)
AllCallsSettled ==
    /\ microtasks = <<>>
    /\ \A i \in BeginIds : begins[i].pc = "done"
    /\ \A j \in EndIds : ends[j].pc = "done"
    /\ unmount.done => unmount.ran

\* the cancel-during-connect scenario has run to completion: the latest
\* startSession() was rejected as cancelled and the endSession() calls resolved
CancelScenarioCompleted ==
    /\ AllCallsSettled
    /\ begins # <<>>
    /\ begins[Len(begins)].outcome = "cancelled"
    /\ begins[Len(begins)].cancelledByEnd
    /\ \A j \in EndIds : ends[j].outcome = "resolved"

\* an end()/unmount is invoked: remembered by every startSession() call made
\* so far; byEnd: it is endSession(), which cancels the calls that await a
\* pending acquisition
NoteEnd(B, byEnd) ==
    [i \in 1..Len(B) |->
        [B[i] EXCEPT
            !.endSince = TRUE,
            !.cancelledByEnd =
                \/ @
                \/ /\ byEnd
                   /\ B[i].pc \in {"awaitOwn", "awaitJoin"}
                   /\ startPromise[B[i].acq] = "pending"]]

\* useScribe after construction (autoConnect is off by default)
InitScribe ==
    /\ connectionRef = NoConnection
    /\ status = "disconnected"
    /\ partialTranscript = ""
    /\ committedTranscripts = <<>>
    /\ error = "null"
    /\ connections = <<>>
    /\ lastScribeCall = [op |-> "none", result |-> "none"]
    /\ scribeUnmounted = FALSE

Init ==
    /\ InitScribe
    /\ conversationRef = NoHandle
    /\ lockRef = NoHandle
    /\ shouldEndRef = FALSE
    /\ startPromise = <<>>
    /\ handles = <<>>
    /\ thenQ = <<>>
    /\ closeQ = <<>>
    /\ microtasks = <<>>
    /\ begins = <<>>
    /\ ends = <<>>
    /\ unmount = [done |-> FALSE, lock |-> NoHandle, ran |-> FALSE, nb |-> 0]
    /\ micMuted = "undefined"
    /\ micMutedSeen = "undefined"
    /\ volume = "undefined"
    /\ requestedVolume = "undefined"
    /\ nSets = 0
    /\ lastSend = [op |-> "none", result |-> "none"]

(***************************************************************************)
(* startSession(): synchronous prologue, up to the first await or return.  *)
(***************************************************************************)
\* value written to shouldEndRef before a new acquisition
FlagAtAcquireKept == shouldEndRef

FlagAtAcquire == FALSE

\* value of shouldEndRef after startSession() joined the acquisition in
\* flight: the join path returns before line 187 and does not write it
FlagAtJoinReset == FALSE

FlagAtJoin == shouldEndRef

\* the error of line 278
CancelError == "Session cancelled during connection"

\* the value the start promise is rejected with
UnderlyingCause == "underlying cause"

\* an error thrown inside try { ... } finally { ... }: there is no catch, the
\* caller's promise is rejected with the same error
Rethrown(e) == e

NewBegin ==
    [pc |-> "done", acq |-> NoHandle, outcome |-> "pending", rid |-> NoHandle,
     err |-> "",
     issued |-> FALSE, cancelledByEnd |-> FALSE, endSince |-> FALSE,
     afterCancel |-> CancelScenarioCompleted]

StartSession ==
    /\ MoreCalls
    /\ LET i == Len(begins) + 1 IN
       IF conversationRef # NoHandle /\ IsOpen(conversationRef)
       THEN \* short-circuit on an open installed handle
            /\ begins' = Append(begins, [NewBegin EXCEPT
                              !.outcome = "resolved",
                              !.rid = GetId(conversationRef)])
            /\ UNCHANGED <<conversationRef, lockRef, shouldEndRef, startPromise,
                           handles, thenQ, closeQ, microtasks, ends, unmount>>
       ELSE IF lockRef # NoHandle
       THEN \* join the acquisition in flight
            /\ begins' = Append(begins, [NewBegin EXCEPT
                              !.pc = "awaitJoin", !.acq = lockRef])
            /\ thenQ' = ThenQAwait(lockRef, BeginTask(i))
            /\ microtasks' = MicroAwait(microtasks, lockRef, BeginTask(i))
            /\ shouldEndRef' = FlagAtJoin
            /\ UNCHANGED <<conversationRef, lockRef, startPromise,
                           handles, closeQ, ends, unmount>>
       ELSE \* new acquisition
            LET p == Len(startPromise) + 1 IN
            /\ shouldEndRef' = FlagAtAcquire
            /\ startPromise' = Append(startPromise, "pending")
            /\ handles' = Append(handles, [state |-> "none", endCalls |-> 0,
                                               dropped |-> FALSE,
                                               calls |-> <<>>])
            /\ thenQ' = Append(thenQ, <<BeginTask(i)>>)
            /\ closeQ' = Append(closeQ, <<>>)
            /\ lockRef' = p
            /\ begins' = Append(begins, [NewBegin EXCEPT
                              !.pc = "awaitOwn", !.acq = p, !.issued = TRUE])
            /\ UNCHANGED <<conversationRef, microtasks, ends, unmount>>
    /\ UNCHANGED fieldVars
    /\ UNCHANGED scribeVars

(***************************************************************************)
(* endSession(): synchronous prologue.                                     *)
(***************************************************************************)
NewEnd(pendingConnection, conversation) ==
    [pc |-> "awaitClose", pending |-> pendingConnection, conv |-> conversation,
     outcome |-> "pending", nb |-> Len(begins)]

\* endSession() that forgets to close the installed conversation
EndSessionNoClose ==
    /\ MoreCalls
    /\ LET j == Len(ends) + 1
           pendingConnection == lockRef
           conversation == conversationRef
       IN
       /\ shouldEndRef' = TRUE
       /\ conversationRef' = NoHandle
       /\ begins' = NoteEnd(begins, TRUE)
       /\ IF pendingConnection # NoHandle
          THEN /\ ends' = Append(ends, [NewEnd(pendingConnection, conversation)
                                           EXCEPT !.pc = "awaitPending"])
               /\ thenQ' = ThenQAwait(pendingConnection, EndTask(j))
               /\ microtasks' = MicroAwait(microtasks, pendingConnection, EndTask(j))
          ELSE /\ ends' = Append(ends, NewEnd(pendingConnection, conversation))
               /\ microtasks' = Append(microtasks, EndTask(j))
               /\ UNCHANGED thenQ
       /\ UNCHANGED <<lockRef, startPromise, handles, closeQ, unmount>>
    /\ UNCHANGED fieldVars
    /\ UNCHANGED scribeVars

EndSession ==
    /\ MoreCalls
    /\ LET j == Len(ends) + 1
           pendingConnection == lockRef
           conversation == conversationRef
       IN
       /\ shouldEndRef' = TRUE
       /\ conversationRef' = NoHandle
       /\ begins' = NoteEnd(begins, TRUE)
       /\ IF pendingConnection # NoHandle
          THEN \* await pendingConnection
               /\ ends' = Append(ends, [NewEnd(pendingConnection, conversation)
                                           EXCEPT !.pc = "awaitPending"])
               /\ thenQ' = ThenQAwait(pendingConnection, EndTask(j))
               /\ microtasks' = MicroAwait(microtasks, pendingConnection, EndTask(j))
               /\ UNCHANGED <<handles, closeQ>>
          ELSE IF conversation # NoHandle
          THEN \* await conversation.endSession()
               LET H == HandleEndSession(handles, conversation) IN
               /\ handles' = H
               /\ ends' = Append(ends, NewEnd(pendingConnection, conversation))
               /\ closeQ' = CloseQAwait(H, conversation, EndTask(j))
               /\ microtasks' = MicroAwaitClose(microtasks, H, conversation, EndTask(j))
               /\ UNCHANGED thenQ
          ELSE \* await undefined
               /\ ends' = Append(ends, NewEnd(pendingConnection, conversation))
               /\ microtasks' = Append(microtasks, EndTask(j))
               /\ UNCHANGED <<handles, thenQ, closeQ>>
       /\ UNCHANGED <<lockRef, startPromise, unmount>>
    /\ UNCHANGED fieldVars
    /\ UNCHANGED scribeVars

(***************************************************************************)
(* onUnmounted hook.                                                       *)
(***************************************************************************)
Unmount ==
    /\ ~unmount.done
    /\ shouldEndRef' = TRUE
    /\ begins' = NoteEnd(begins, FALSE)
    /\ IF lockRef # NoHandle
       THEN \* lockRef.value.then(conv => conv.endSession())
            /\ unmount' = [done |-> TRUE, lock |-> lockRef, ran |-> FALSE,
                            nb |-> Len(begins)]
            /\ thenQ' = ThenQAwait(lockRef, UnmountTask)
            /\ microtasks' = MicroAwait(microtasks, lockRef, UnmountTask)
            /\ UNCHANGED handles
       ELSE \* conversationRef.value?.endSession()
            /\ unmount' = [done |-> TRUE, lock |-> NoHandle, ran |-> TRUE,
                            nb |-> Len(begins)]
            /\ handles' = IF conversationRef # NoHandle
                          THEN HandleEndSession(handles, conversationRef)
                          ELSE handles
            /\ UNCHANGED <<thenQ, microtasks>>
    /\ UNCHANGED <<conversationRef, lockRef, startPromise, closeQ, ends>>
    /\ UNCHANGED fieldVars
    /\ UNCHANGED scribeVars

(***************************************************************************)
(* The client library: the start promise settles, a close completes, the   *)
(* session is dropped by the remote side.                                  *)
(***************************************************************************)
ResolveStart(p) ==
    /\ startPromise[p] = "pending"
    /\ startPromise' = [startPromise EXCEPT ![p] = "resolved"]
    /\ handles' = [handles EXCEPT ![p].state = "open"]
    /\ microtasks' = microtasks \o thenQ[p]
    /\ thenQ' = [thenQ EXCEPT ![p] = <<>>]
    /\ UNCHANGED <<conversationRef, lockRef, shouldEndRef, closeQ, begins,
                   ends, unmount>>
    /\ UNCHANGED fieldVars
    /\ UNCHANGED scribeVars

RejectStart(p) ==
    /\ startPromise[p] = "pending"
    /\ startPromise' = [startPromise EXCEPT ![p] = "rejected"]
    /\ microtasks' = microtasks \o thenQ[p]
    /\ thenQ' = [thenQ EXCEPT ![p] = <<>>]
    /\ UNCHANGED <<conversationRef, lockRef, shouldEndRef, handles, closeQ,
                   begins, ends, unmount>>
    /\ UNCHANGED fieldVars
    /\ UNCHANGED scribeVars

CloseDone(h) ==
    /\ handles[h].state = "closing"
    /\ handles' = [handles EXCEPT ![h].state = "closed"]
    /\ microtasks' = microtasks \o closeQ[h]
    /\ closeQ' = [closeQ EXCEPT ![h] = <<>>]
    /\ UNCHANGED <<conversationRef, lockRef, shouldEndRef, startPromise, thenQ,
                   begins, ends, unmount>>
    /\ UNCHANGED fieldVars
    /\ UNCHANGED scribeVars

Disconnect(h) ==
    /\ handles[h].state = "open"
    /\ handles' = [handles EXCEPT ![h].state = "closed", ![h].dropped = TRUE]
    /\ UNCHANGED <<conversationRef, lockRef, shouldEndRef, startPromise, thenQ,
                   closeQ, microtasks, begins, ends, unmount>>
    /\ UNCHANGED fieldVars
    /\ UNCHANGED scribeVars

(***************************************************************************)
(* Continuations, run from the head of the microtask queue.                *)
(***************************************************************************)
NextIs(kind, pcs) ==
    /\ microtasks # <<>>
    /\ Head(microtasks).kind = kind
    /\ \/ kind \in {"unmount", "watch"}
       \/ kind = "begin" /\ begins[Head(microtasks).id].pc \in pcs
       \/ kind = "end" /\ ends[Head(microtasks).id].pc \in pcs

\* the cancellation check made when the acquisition has settled
CancelRequestedNever == FALSE

CancelRequested == shouldEndRef

\* the controlled fields are applied to the handle, volume first
ApplyControlledVolumeFirst(H, h) ==
    LET H1 == IF volume # "undefined"
              THEN HandleSet(H, h, "setVolume", volume) ELSE H
    IN IF micMuted # "undefined"
       THEN HandleSet(H1, h, "setMicMuted", micMuted) ELSE H1

\* the controlled fields are applied to the newly installed handle
ApplyControlled(H, h) ==
    LET H1 == IF micMuted # "undefined"
              THEN HandleSet(H, h, "setMicMuted", micMuted) ELSE H
    IN IF volume # "undefined"
       THEN HandleSet(H1, h, "setVolume", volume) ELSE H1

\* startSession() after `await lockRef.value` of its own acquisition
BeginResumeOwn ==
    /\ NextIs("begin", {"awaitOwn"})
    /\ LET i == Head(microtasks).id
           h == begins[i].acq
           rest == Tail(microtasks)
       IN
       IF startPromise[h] = "rejected"
       THEN \* the await throws; finally
            /\ lockRef' = NoHandle
            /\ begins' = [begins EXCEPT ![i].pc = "done", ![i].outcome = "failed",
                                        ![i].err = Rethrown(UnderlyingCause)]
            /\ microtasks' = rest
            /\ UNCHANGED <<conversationRef, handles, closeQ>>
       ELSE /\ conversationRef' = h
            /\ IF CancelRequested
               THEN \* await conversationRef.value.endSession()
                    LET H == HandleEndSession(handles, h) IN
                    /\ handles' = H
                    /\ closeQ' = CloseQAwait(H, h, BeginTask(i))
                    /\ microtasks' = MicroAwaitClose(rest, H, h, BeginTask(i))
                    /\ begins' = [begins EXCEPT ![i].pc = "awaitClose"]
                    /\ UNCHANGED lockRef
               ELSE \* return conversationRef.value.getId(); finally
                    /\ lockRef' = NoHandle
                    /\ begins' = [begins EXCEPT ![i].pc = "done",
                                                ![i].outcome = "resolved",
                                                ![i].rid = GetId(h)]
                    /\ microtasks' = rest
                    /\ handles' = ApplyControlled(handles, h)
                    /\ UNCHANGED closeQ
    /\ UNCHANGED <<shouldEndRef, startPromise, thenQ, ends, unmount>>
    /\ UNCHANGED fieldVars
    /\ UNCHANGED scribeVars

\* value of lockRef when a joining startSession() returns: the join path
\* lies outside the try/finally and does not clear it
LockAfterJoinCleared == NoHandle

LockAfterJoin == lockRef

\* startSession() after `await lockRef.value` of an acquisition it joined
BeginResumeJoin ==
    /\ NextIs("begin", {"awaitJoin"})
    /\ LET i == Head(microtasks).id
           h == begins[i].acq
       IN
       begins' = IF startPromise[h] = "rejected"
                 THEN [begins EXCEPT ![i].pc = "done", ![i].outcome = "failed",
                                     ![i].err = UnderlyingCause]
                 ELSE [begins EXCEPT ![i].pc = "done", ![i].outcome = "resolved",
                                     ![i].rid = GetId(h)]
    /\ microtasks' = Tail(microtasks)
    /\ lockRef' = LockAfterJoin
    /\ UNCHANGED <<conversationRef, shouldEndRef, startPromise, handles,
                   thenQ, closeQ, ends, unmount>>
    /\ UNCHANGED fieldVars
    /\ UNCHANGED scribeVars

\* startSession() after the close of the cancelled handle: clear and throw
BeginAfterClose ==
    /\ NextIs("begin", {"awaitClose"})
    /\ LET i == Head(microtasks).id IN
       begins' = [begins EXCEPT ![i].pc = "done", ![i].outcome = "cancelled",
                                ![i].err = Rethrown(CancelError)]
    /\ conversationRef' = NoHandle
    /\ lockRef' = NoHandle
    /\ microtasks' = Tail(microtasks)
    /\ UNCHANGED <<shouldEndRef, startPromise, handles, thenQ, closeQ, ends,
                   unmount>>
    /\ UNCHANGED fieldVars
    /\ UNCHANGED scribeVars

\* endSession() that awaits the pending connection and never closes it
EndResumePendingNoClose ==
    /\ NextIs("end", {"awaitPending"})
    /\ LET j == Head(microtasks).id IN
       ends' = IF startPromise[ends[j].pending] = "rejected"
               THEN [ends EXCEPT ![j].pc = "done", ![j].outcome = "rejected"]
               ELSE [ends EXCEPT ![j].pc = "done", ![j].outcome = "resolved"]
    /\ microtasks' = Tail(microtasks)
    /\ UNCHANGED <<conversationRef, lockRef, shouldEndRef, startPromise, handles,
                   thenQ, closeQ, begins, unmount>>
    /\ UNCHANGED fieldVars
    /\ UNCHANGED scribeVars

\* endSession() after `await pendingConnection`
EndResumePending ==
    /\ NextIs("end", {"awaitPending"})
    /\ LET j == Head(microtasks).id
           h == ends[j].pending
           rest == Tail(microtasks)
       IN
       IF startPromise[h] = "rejected"
       THEN \* the await throws: endSession() rejects
            /\ ends' = [ends EXCEPT ![j].pc = "done", ![j].outcome = "rejected"]
            /\ microtasks' = rest
            /\ UNCHANGED <<handles, closeQ>>
       ELSE \* await conv.endSession()
            LET H == HandleEndSession(handles, h) IN
            /\ handles' = H
            /\ closeQ' = CloseQAwait(H, h, EndTask(j))
            /\ microtasks' = MicroAwaitClose(rest, H, h, EndTask(j))
            /\ ends' = [ends EXCEPT ![j].pc = "awaitClose"]
    /\ UNCHANGED <<conversationRef, lockRef, shouldEndRef, startPromise, thenQ,
                   begins, unmount>>
    /\ UNCHANGED fieldVars
    /\ UNCHANGED scribeVars

\* endSession() that calls endSession() on a missing conversation
EndAfterCloseThrows ==
    /\ NextIs("end", {"awaitClose"})
    /\ LET j == Head(microtasks).id IN
       ends' = [ends EXCEPT ![j].pc = "done",
                            ![j].outcome = IF ends[j].conv = NoHandle
                                           THEN "rejected" ELSE "resolved"]
    /\ microtasks' = Tail(microtasks)
    /\ UNCHANGED <<conversationRef, lockRef, shouldEndRef, startPromise, handles,
                   thenQ, closeQ, begins, unmount>>
    /\ UNCHANGED fieldVars
    /\ UNCHANGED scribeVars

\* endSession() after its last await: the promise resolves
EndAfterClose ==
    /\ NextIs("end", {"awaitClose"})
    /\ LET j == Head(microtasks).id IN
       ends' = [ends EXCEPT ![j].pc = "done", ![j].outcome = "resolved"]
    /\ microtasks' = Tail(microtasks)
    /\ UNCHANGED <<conversationRef, lockRef, shouldEndRef, startPromise, handles,
                   thenQ, closeQ, begins, unmount>>
    /\ UNCHANGED fieldVars
    /\ UNCHANGED scribeVars

\* the reaction the unmount hook registered: conv => conv.endSession()
UnmountThen ==
    /\ NextIs("unmount", {})
    /\ handles' = IF startPromise[unmount.lock] = "resolved"
                  THEN HandleEndSession(handles, unmount.lock)
                  ELSE handles
    /\ unmount' = [unmount EXCEPT !.ran = TRUE]
    /\ microtasks' = Tail(microtasks)
    /\ UNCHANGED <<conversationRef, lockRef, shouldEndRef, startPromise, thenQ,
                   closeQ, begins, ends>>
    /\ UNCHANGED fieldVars
    /\ UNCHANGED scribeVars

(***************************************************************************)
(* The controlled fields and the passthrough operations.                   *)
(***************************************************************************)
MicValues == {"true", "false"}
VolumeValues == {"0.5"}
SendOps == {"sendFeedback", "sendContextualUpdate", "sendUserMessage",
            "sendUserActivity", "sendMCPToolApprovalResult"}

\* the caller assigns micMuted.value = v: the watcher's job is queued once
SetMicMuted(v) ==
    /\ MoreCalls
    /\ v # micMuted
    /\ micMuted' = v
    /\ nSets' = nSets + 1
    /\ microtasks' = IF \E k \in 1..Len(microtasks) : microtasks[k] = WatchTask
                     THEN microtasks
                     ELSE Append(microtasks, WatchTask)
    /\ UNCHANGED <<conversationRef, lockRef, shouldEndRef, startPromise,
                   handles, thenQ, closeQ, begins, ends, unmount,
                   micMutedSeen, volume, lastSend, requestedVolume>>
    /\ UNCHANGED scribeVars

\* the job of watch(micMuted, ...): the callback runs if the value changed
\* and the watcher has not been stopped by the unmount
WatchMicMuted ==
    /\ NextIs("watch", {})
    /\ microtasks' = Tail(microtasks)
    /\ micMutedSeen' = micMuted
    /\ handles' = IF /\ ~unmount.done
                     /\ micMuted # micMutedSeen
                     /\ micMuted # "undefined"
                     /\ conversationRef # NoHandle
                  THEN HandleSet(handles, conversationRef, "setMicMuted",
                                 micMuted)
                  ELSE handles
    /\ UNCHANGED <<conversationRef, lockRef, shouldEndRef, startPromise,
                   thenQ, closeQ, begins, ends, unmount, micMuted, volume,
                   nSets, lastSend, requestedVolume>>
    /\ UNCHANGED scribeVars

\* the setVolume() passthrough: the volume field itself is not written
SetVolume(v) ==
    /\ MoreCalls
    /\ nSets' = nSets + 1
    /\ requestedVolume' = v
    /\ handles' = IF conversationRef # NoHandle
                  THEN HandleSet(handles, conversationRef, "setVolume", v)
                  ELSE handles
    /\ UNCHANGED <<conversationRef, lockRef, shouldEndRef, startPromise,
                   thenQ, closeQ, microtasks, begins, ends, unmount,
                   micMuted, micMutedSeen, volume, lastSend>>
    /\ UNCHANGED scribeVars

\* a passthrough send: conversationRef.value?.op(...)
Send(op) ==
    /\ MoreCalls
    /\ nSets' = nSets + 1
    /\ lastSend' = [op |-> op,
                    result |-> IF conversationRef # NoHandle
                               THEN "delivered" ELSE "ignored"]
    /\ UNCHANGED <<conversationRef, lockRef, shouldEndRef, startPromise,
                   handles, thenQ, closeQ, microtasks, begins, ends, unmount,
                   micMuted, micMutedSeen, volume, requestedVolume>>
    /\ UNCHANGED scribeVars

Next ==
    \/ StartSession
    \/ EndSession
    \/ Unmount
    \/ \E p \in Promises : ResolveStart(p)
    \/ \E p \in Promises : RejectStart(p)
    \/ \E h \in Promises : CloseDone(h)
    \/ \E h \in Promises : Disconnect(h)
    \/ BeginResumeOwn
    \/ BeginResumeJoin
    \/ BeginAfterClose
    \/ EndResumePending
    \/ EndAfterClose
    \/ UnmountThen

Spec == Init /\ [][Next]_vars

\* the composable constructed with any initial micMuted and volume
InitControlled ==
    /\ InitScribe
    /\ conversationRef = NoHandle
    /\ lockRef = NoHandle
    /\ shouldEndRef = FALSE
    /\ startPromise = <<>>
    /\ handles = <<>>
    /\ thenQ = <<>>
    /\ closeQ = <<>>
    /\ microtasks = <<>>
    /\ begins = <<>>
    /\ ends = <<>>
    /\ unmount = [done |-> FALSE, lock |-> NoHandle, ran |-> FALSE, nb |-> 0]
    /\ micMuted \in MicValues \cup {"undefined"}
    /\ micMutedSeen = micMuted
    /\ volume \in VolumeValues \cup {"undefined"}
    /\ requestedVolume = volume
    /\ nSets = 0
    /\ lastSend = [op |-> "none", result |-> "none"]

NextControlled ==
    \/ StartSession
    \/ EndSession
    \/ \E p \in Promises : ResolveStart(p)
    \/ \E h \in Promises : CloseDone(h)
    \/ BeginResumeOwn
    \/ BeginResumeJoin
    \/ BeginAfterClose
    \/ EndResumePending
    \/ EndAfterClose
    \/ \E v \in MicValues \cup {"undefined"} : SetMicMuted(v)
    \/ WatchMicMuted
    \/ \E v \in VolumeValues : SetVolume(v)
    \/ \E op \in SendOps : Send(op)

SpecControlled == InitControlled /\ [][NextControlled]_vars

(***************************************************************************)
(* useScribe: the methods, the event handlers of a connection, the hook.   *)
(***************************************************************************)
Connections == 1..Len(connections)

\* what callers pass as options: complete, or lacking a required part
Configs == {"valid", "noToken", "noModelId", "noAudio"}

Texts == {"a", "b"}

ErrorMessages == {"boom"}

\* the error events a connection emits
ErrorEvents == {"ERROR", "AUTH_ERROR", "QUOTA_EXCEEDED", "COMMIT_THROTTLED",
                "TRANSCRIBER_ERROR", "UNACCEPTED_TERMS", "RATE_LIMITED",
                "INPUT_ERROR", "QUEUE_OVERFLOW", "RESOURCE_EXHAUSTED",
                "SESSION_TIME_LIMIT_EXCEEDED", "CHUNK_SIZE_EXCEEDED",
                "INSUFFICIENT_AUDIO_ACTIVITY"}

\* the message of the error thrown for the options, "" when none is thrown
mergeScribeOptions(cfg) ==
    IF cfg = "noToken" THEN "Token is required"
    ELSE IF cfg = "noModelId" THEN "Model ID is required"
    ELSE ""

createScribeConnection(cfg) ==
    IF cfg = "noAudio"
    THEN "Either microphone options or (audioFormat + sampleRate) must be provided"
    ELSE ""

\* connection.close() is invoked
ConnectionClose(C, c) == [C EXCEPT ![c].closeCalled = TRUE]

\* connection c still delivers session and transcript events: it has not
\* been asked to close and has not closed
Emits(c) == ~connections[c].closeCalled /\ ~connections[c].closeEmitted

\* connection c has yet to emit its CLOSE event
EmitsClose(c) == ~connections[c].closeEmitted

ScribeCall(op, result) == [op |-> op, result |-> result]

connect(cfg) ==
    /\ IF connectionRef # NoConnection
       THEN \* "Already connected"
            /\ lastScribeCall' = ScribeCall("connect", "already connected")
            /\ UNCHANGED <<connectionRef, status, error, connections>>
       ELSE IF mergeScribeOptions(cfg) # ""
       THEN /\ error' = mergeScribeOptions(cfg)
            /\ status' = "error"
            /\ lastScribeCall' = ScribeCall("connect", "failed")
            /\ UNCHANGED <<connectionRef, connections>>
       ELSE IF createScribeConnection(cfg) # ""
       THEN /\ error' = createScribeConnection(cfg)
            /\ status' = "error"
            /\ lastScribeCall' = ScribeCall("connect", "failed")
            /\ UNCHANGED <<connectionRef, connections>>
       ELSE /\ Len(connections) < MaxConnections
            /\ status' = "connecting"
            /\ error' = "null"
            /\ connections' = Append(connections, [closeCalled |-> FALSE,
                                                    closeEmitted |-> FALSE])
            /\ connectionRef' = Len(connections) + 1
            /\ lastScribeCall' = ScribeCall("connect", "created")
    /\ UNCHANGED <<partialTranscript, committedTranscripts, scribeUnmounted>>
    /\ UNCHANGED <<sessionVars, fieldVars>>

disconnect ==
    /\ connections' = IF connectionRef # NoConnection
                      THEN ConnectionClose(connections, connectionRef)
                      ELSE connections
    /\ connectionRef' = NoConnection
    /\ status' = "disconnected"
    /\ lastScribeCall' = ScribeCall("disconnect", "done")
    /\ UNCHANGED <<partialTranscript, committedTranscripts, error,
                   scribeUnmounted>>
    /\ UNCHANGED <<sessionVars, fieldVars>>

\* what sendAudio() and commit() do
ScribeSendOutcome ==
    IF connectionRef = NoConnection THEN "Not connected to Scribe" ELSE "sent"

sendAudio ==
    /\ lastScribeCall' = ScribeCall("sendAudio", ScribeSendOutcome)
    /\ UNCHANGED <<connectionRef, status, partialTranscript,
                   committedTranscripts, error, connections, scribeUnmounted>>
    /\ UNCHANGED <<sessionVars, fieldVars>>

commit ==
    /\ lastScribeCall' = ScribeCall("commit", ScribeSendOutcome)
    /\ UNCHANGED <<connectionRef, status, partialTranscript,
                   committedTranscripts, error, connections, scribeUnmounted>>
    /\ UNCHANGED <<sessionVars, fieldVars>>

clearTranscripts ==
    /\ committedTranscripts' = <<>>
    /\ partialTranscript' = ""
    /\ lastScribeCall' = ScribeCall("clearTranscripts", "done")
    /\ UNCHANGED <<connectionRef, status, error, connections, scribeUnmounted>>
    /\ UNCHANGED <<sessionVars, fieldVars>>

\* the onUnmounted hook of useScribe
ScribeUnmount ==
    /\ ~scribeUnmounted
    /\ scribeUnmounted' = TRUE
    /\ connections' = IF connectionRef # NoConnection
                      THEN ConnectionClose(connections, connectionRef)
                      ELSE connections
    /\ UNCHANGED <<connectionRef, status, partialTranscript,
                   committedTranscripts, error, lastScribeCall>>
    /\ UNCHANGED <<sessionVars, fieldVars>>

SESSION_STARTED(c) ==
    /\ Emits(c)
    /\ status' = "connected"
    /\ UNCHANGED <<connectionRef, partialTranscript, committedTranscripts,
                   error, connections, lastScribeCall, scribeUnmounted>>
    /\ UNCHANGED <<sessionVars, fieldVars>>

PARTIAL_TRANSCRIPT(c, text) ==
    /\ Emits(c)
    /\ partialTranscript' = text
    /\ status' = "transcribing"
    /\ UNCHANGED <<connectionRef, committedTranscripts, error, connections,
                   lastScribeCall, scribeUnmounted>>
    /\ UNCHANGED <<sessionVars, fieldVars>>

\* the segment list with the new segment put first
AppendSegmentFront(segments, segment) == <<segment>> \o segments

\* [...committedTranscripts.value, segment]
AppendSegment(segments, segment) == Append(segments, segment)

COMMITTED_TRANSCRIPT(c, text) ==
    /\ Emits(c)
    /\ Len(committedTranscripts) < MaxSegments
    /\ committedTranscripts' =
          AppendSegment(committedTranscripts,
                        [text |-> text, isFinal |-> TRUE, words |-> FALSE])
    /\ partialTranscript' = ""
    /\ UNCHANGED <<connectionRef, status, error, connections, lastScribeCall,
                   scribeUnmounted>>
    /\ UNCHANGED <<sessionVars, fieldVars>>

COMMITTED_TRANSCRIPT_WITH_TIMESTAMPS(c, text) ==
    /\ Emits(c)
    /\ Len(committedTranscripts) < MaxSegments
    /\ committedTranscripts' =
          AppendSegment(committedTranscripts,
                        [text |-> text, isFinal |-> TRUE, words |-> TRUE])
    /\ partialTranscript' = ""
    /\ UNCHANGED <<connectionRef, status, error, connections, lastScribeCall,
                   scribeUnmounted>>
    /\ UNCHANGED <<sessionVars, fieldVars>>

\* the handler of ERROR and the twelve handlers set up by setupErrorHandler
ErrorEvent(c, event, message) ==
    /\ Emits(c)
    /\ error' = message
    /\ status' = "error"
    /\ UNCHANGED <<connectionRef, partialTranscript, committedTranscripts,
                   connections, lastScribeCall, scribeUnmounted>>
    /\ UNCHANGED <<sessionVars, fieldVars>>

\* the CLOSE handler registered by connect()
CLOSE(c) ==
    /\ EmitsClose(c)
    /\ connections' = [connections EXCEPT ![c].closeEmitted = TRUE]
    /\ status' = "disconnected"
    /\ connectionRef' = NoConnection
    /\ UNCHANGED <<partialTranscript, committedTranscripts, error,
                   lastScribeCall, scribeUnmounted>>
    /\ UNCHANGED <<sessionVars, fieldVars>>

\* the connection's life: methods, hook, session and lifecycle events
NextScribe ==
    \/ \E cfg \in Configs : connect(cfg)
    \/ disconnect
    \/ sendAudio
    \/ commit
    \/ ScribeUnmount
    \/ \E c \in Connections : SESSION_STARTED(c)
    \/ \E c \in Connections, text \in Texts : PARTIAL_TRANSCRIPT(c, text)
    \/ \E c \in Connections, event \in ErrorEvents, message \in ErrorMessages :
          ErrorEvent(c, event, message)
    \/ \E c \in Connections : CLOSE(c)

SpecScribe == Init /\ [][NextScribe]_vars

\* the transcript fields: the events that write them and clearTranscripts()
NextTranscripts ==
    \/ \E cfg \in Configs : connect(cfg)
    \/ disconnect
    \/ clearTranscripts
    \/ \E c \in Connections : SESSION_STARTED(c)
    \/ \E c \in Connections, text \in Texts : PARTIAL_TRANSCRIPT(c, text)
    \/ \E c \in Connections, text \in Texts : COMMITTED_TRANSCRIPT(c, text)
    \/ \E c \in Connections, text \in Texts :
          COMMITTED_TRANSCRIPT_WITH_TIMESTAMPS(c, text)
    \/ \E c \in Connections, event \in ErrorEvents, message \in ErrorMessages :
          ErrorEvent(c, event, message)

SpecTranscripts == Init /\ [][NextTranscripts]_vars

(***************************************************************************)
(* Properties.                                                             *)
(***************************************************************************)
\* the startSession() call i issued the start request, endSession() was
\* invoked while that request was pending, and the request resolved
CancelledDuringConnect(i) ==
    /\ begins[i].issued
    /\ begins[i].cancelledByEnd
    /\ startPromise[begins[i].acq] = "resolved"

\* number of endSession() calls and unmount hooks that captured promise p
Captures(p) ==
    Cardinality({j \in EndIds : ends[j].pending = p})
        + (IF unmount.lock = p THEN 1 ELSE 0)

\* every call that captured promise p has run to its end
CapturersSettled(p) ==
    /\ \A j \in EndIds : ends[j].pending = p => ends[j].pc = "done"
    /\ unmount.lock = p => unmount.ran

\* C1: when endSession() is invoked while startSession()'s start request is
\* pending and the request then resolves with a handle, startSession() rejects
\* with "Session cancelled during connection", endSession() has been invoked
\* on that handle, and the slot is empty (until a later acquisition).
C1_CancelDuringConnect ==
    \A i \in BeginIds :
        (CancelledDuringConnect(i) /\ begins[i].pc = "done")
            => /\ begins[i].outcome = "cancelled"
               /\ handles[begins[i].acq].endCalls >= 1
               /\ (Len(startPromise) = begins[i].acq
                       => conversationRef = NoHandle)

C1_Witness ==
    \E i \in BeginIds :
        /\ CancelledDuringConnect(i)
        /\ begins[i].pc = "done"
        /\ begins[i].outcome = "cancelled"
        /\ \E j \in EndIds : ends[j].pending = begins[i].acq /\ ends[j].pc = "done"
        /\ conversationRef = NoHandle

\* C2 (as claimed): in the cancel-during-connect scenario the handle's close
\* is invoked exactly once, counting begin()'s completion handler and end().
C2_CloseExactlyOnce ==
    \A i \in BeginIds :
        (/\ CancelledDuringConnect(i)
         /\ begins[i].pc = "done"
         /\ CapturersSettled(begins[i].acq))
            => handles[begins[i].acq].endCalls = 1

\* C2 (amended): in the cancel-during-connect scenario the handle's close is
\* invoked once by begin()'s completion handler and once more by every end()
\* or unmount hook that captured the pending acquisition: at least twice.
C2_CloseOncePerParty ==
    \A i \in BeginIds :
        (/\ CancelledDuringConnect(i)
         /\ begins[i].pc = "done"
         /\ CapturersSettled(begins[i].acq))
            => /\ handles[begins[i].acq].endCalls = 1 + Captures(begins[i].acq)
               /\ handles[begins[i].acq].endCalls >= 2

C2_Witness ==
    \E i \in BeginIds :
        /\ CancelledDuringConnect(i)
        /\ begins[i].pc = "done"
        /\ CapturersSettled(begins[i].acq)
        /\ handles[begins[i].acq].endCalls = 2

\* C3: two startSession() calls with no endSession() since the first was
\* made (and no unmount, no failed start request, no dropped session): both
\* resolve with the same session id and at most one of them issued a start
\* request.
C3_IdempotentBegin ==
    \A i, k \in BeginIds :
        (/\ i < k
         /\ ~begins[i].endSince
         /\ ~unmount.done
         /\ begins[i].pc = "done" /\ begins[k].pc = "done"
         /\ \A p \in Promises : startPromise[p] # "rejected"
                                  /\ ~handles[p].dropped)
            => /\ begins[i].outcome = "resolved"
               /\ begins[k].outcome = "resolved"
               /\ begins[i].rid = begins[k].rid
               /\ ~(begins[i].issued /\ begins[k].issued)

\* C4: a startSession() made after a completed cancel-during-connect
\* scenario, with no end()/unmount since, issues one new start request; when
\* that request resolves the call resolves with the new handle's id and the
\* handle is installed.
C4_SlotReuseAfterCancel ==
    \A i \in BeginIds :
        (begins[i].afterCancel /\ ~begins[i].endSince)
            => /\ begins[i].issued
               /\ begins[i].acq = Cardinality({k \in 1..(i-1) : begins[k].issued}) + 1
               /\ (startPromise[begins[i].acq] = "resolved" /\ begins[i].pc = "done")
                     => /\ begins[i].outcome = "resolved"
                        /\ begins[i].rid = GetId(begins[i].acq)
                        /\ (i = Len(begins) => /\ conversationRef = begins[i].acq
                                               /\ lockRef = NoHandle)

C4_Witness ==
    \E i \in BeginIds :
        /\ begins[i].afterCancel /\ ~begins[i].endSince
        /\ begins[i].pc = "done"
        /\ begins[i].outcome = "resolved"
        /\ begins[i].rid = 2
        /\ Len(startPromise) = 2
        /\ conversationRef = 2

\* C5: once all calls have settled, every handle the start call returned is
\* installed in the slot, or has had endSession() invoked, or is not open.
C5_NoDanglingSession ==
    AllCallsSettled =>
        \A h \in Promises :
            startPromise[h] = "resolved"
                => \/ conversationRef = h
                   \/ handles[h].endCalls >= 1
                   \/ ~IsOpen(h)

C5_Witness ==
    /\ AllCallsSettled
    /\ \E h \in Promises : /\ startPromise[h] = "resolved"
                           /\ conversationRef # h
                           /\ handles[h].endCalls >= 1
                           /\ ~handles[h].dropped
    /\ \E h \in Promises : conversationRef = h /\ IsOpen(h)

\* C6: every startSession() call awaiting an acquisition when endSession() is
\* invoked (the issuer and the joiners) rejects as cancelled when the
\* acquisition resolves; none resolves with the discarded handle's id.
C6_AwaitersCancelled ==
    \A i \in BeginIds :
        (/\ begins[i].cancelledByEnd
         /\ begins[i].pc = "done"
         /\ startPromise[begins[i].acq] = "resolved")
            => begins[i].outcome = "cancelled"

\* the handles an endSession() call captured
Captured(j) == {ends[j].pending, ends[j].conv} \ {NoHandle}

\* C7: when an endSession() promise has resolved, the handle it captured
\* (installed or pending) is closed and is not held in the slot.
C7_EndResolvesClosed ==
    \A j \in EndIds :
        ends[j].outcome = "resolved"
            => \A h \in Captured(j) : /\ handles[h].state = "closed"
                                      /\ conversationRef # h

\* C8: at most one handle is open (returned by start and not yet closed).
C8_AtMostOneOpen ==
    Cardinality({h \in Promises : handles[h].state \in {"open", "closing"}}) <= 1

\* C9: if the pending-acquisition marker is non-empty, the slot is empty.
C9_PendingImpliesEmptySlot ==
    lockRef # NoHandle => conversationRef = NoHandle

\* C10: a handle acquired while the cancellation flag is set is never
\* installed: from settlement until begin() rejects the slot does not hold it.
C10_CancelledNeverInstalled ==
    \A i \in BeginIds :
        (begins[i].issued /\ begins[i].pc = "awaitClose")
            => conversationRef # begins[i].acq

\* the startSession() call i is the first one made after the prologue of the
\* endSession() call j
FirstBeginAfterEnd(i, j) == ends[j].nb = i - 1

\* C11: a startSession() invoked after an endSession() has run its prologue,
\* also while the acquisition that end() cancels is unsettled, performs a
\* fresh acquisition (issues its own start request), and when that request
\* resolves with no later end()/unmount it resolves with the new handle's id.
C11_FreshBeginAfterEnd ==
    \A i \in BeginIds : \A j \in EndIds :
        FirstBeginAfterEnd(i, j)
            => /\ begins[i].issued
               /\ (/\ begins[i].pc = "done"
                   /\ ~begins[i].endSince
                   /\ startPromise[begins[i].acq] = "resolved")
                     => /\ begins[i].outcome = "resolved"
                        /\ begins[i].rid = GetId(begins[i].acq)

\* an endSession() call that found the slot empty and nothing pending
NothingToEnd(j) == ends[j].pending = NoHandle /\ ends[j].conv = NoHandle

\* C12: endSession() invoked with the slot empty and no acquisition pending
\* invokes no handle's close, leaves slot and pending marker empty, and
\* resolves without error.
C12_EndWithNothingToDo ==
    [][/\ (Len(ends') > Len(ends) /\ lockRef = NoHandle
                                  /\ conversationRef = NoHandle)
            => /\ handles' = handles
               /\ lockRef' = NoHandle
               /\ conversationRef' = NoHandle
       /\ \A j \in EndIds :
            (NothingToEnd(j) /\ ends[j].pc # "done" /\ ends'[j].pc = "done")
                => /\ ends'[j].outcome = "resolved"
                   /\ handles' = handles
                   /\ lockRef' = lockRef
                   /\ conversationRef' = conversationRef]_vars

C12_Witness ==
    \E j \in EndIds :
        /\ NothingToEnd(j)
        /\ ends[j].outcome = "resolved"
        /\ \A h \in Promises : handles[h].endCalls = 0

\* C15: endSession() never rejects.
C15_EndNeverRejects ==
    \A j \in EndIds : ends[j].outcome # "rejected"

\* C16: after the unmount hook has run and every call has settled, with no
\* startSession() made after the unmount, the slot is empty.
C16_SlotEmptyAfterUnmount ==
    (/\ unmount.done
     /\ AllCallsSettled
     /\ Len(begins) = unmount.nb)
        => conversationRef = NoHandle

\* two endSession() calls captured the same pending acquisition or the same
\* installed handle, and everything has settled
ConcurrentEndsSettled(j, k) ==
    /\ j < k
    /\ \/ ends[j].pending # NoHandle /\ ends[k].pending = ends[j].pending
       \/ /\ ends[j].pending = NoHandle /\ ends[j].conv # NoHandle
          /\ ends[k].nb = ends[j].nb
    /\ AllCallsSettled

\* C18: two endSession() calls issued while the same acquisition is pending
\* (or the same handle is installed) both resolve without error; with no
\* later startSession() the slot and the pending marker are then empty.
C18_ConcurrentEndsSafe ==
    \A j, k \in EndIds :
        ConcurrentEndsSettled(j, k)
            => /\ ends[j].outcome = "resolved"
               /\ ends[k].outcome = "resolved"
               /\ Len(begins) = ends[k].nb
                    => conversationRef = NoHandle /\ lockRef = NoHandle

\* C19: the synchronous prologue of endSession() sets the cancellation flag
\* and leaves both the pending marker and the slot empty.
C19_EndPrologueClearsBoth ==
    [][Len(ends') > Len(ends)
          => /\ shouldEndRef'
             /\ lockRef' = NoHandle
             /\ conversationRef' = NoHandle]_vars

\* C20: once every ready continuation has run, the pending marker is
\* non-empty exactly when a start request has been issued and has not yet
\* settled.
C20_PendingIffUnsettled ==
    microtasks = <<>>
        => /\ lockRef # NoHandle => startPromise[lockRef] = "pending"
           /\ \A p \in Promises : startPromise[p] = "pending" => lockRef = p

\* C14: when the start request is rejected, startSession() rejects with a
\* SessionStartFailed error that wraps the cause (it is neither the raw cause
\* nor the cancellation error), the pending marker is cleared, and the slot
\* holds no handle of this acquisition.
C14_StartFailureWrapped ==
    \A i \in BeginIds :
        (/\ begins[i].issued
         /\ begins[i].pc = "done"
         /\ startPromise[begins[i].acq] = "rejected")
            => /\ begins[i].outcome = "failed"
               /\ begins[i].err = "SessionStartFailed"
               /\ lockRef # begins[i].acq
               /\ conversationRef # begins[i].acq

\* startSession() call i, which issued its own request, returns the id in
\* this step
ReturnsId(i) ==
    /\ begins[i].issued
    /\ begins[i].pc # "done"
    /\ begins'[i].pc = "done"
    /\ begins'[i].outcome = "resolved"

\* C13: when micMuted and volume are both defined and a startSession()
\* call that issued its own request completes successfully, then at the
\* moment it returns the id the newly installed handle has received exactly
\* setMicMuted(micMuted) once and then setVolume({volume}) once, and
\* nothing else.
C13_ControlledFieldsApplied ==
    [][\A i \in BeginIds :
          (ReturnsId(i) /\ micMuted # "undefined" /\ volume # "undefined")
              => /\ conversationRef' = begins[i].acq
                 /\ handles'[begins[i].acq].calls =
                        << <<"setMicMuted", micMuted>>,
                           <<"setVolume", volume>> >>]_vars

C13_Witness ==
    \E i \in BeginIds :
        /\ begins[i].issued
        /\ begins[i].outcome = "resolved"
        /\ conversationRef = begins[i].acq
        /\ micMuted # "undefined"
        /\ volume # "undefined"
        /\ nSets > 0
        /\ handles[begins[i].acq].calls =
               << <<"setMicMuted", micMuted>>, <<"setVolume", volume>> >>

\* C17: a passthrough send made while no handle is installed fails with
\* NotConnected; it is never silently ignored.
C17_SendWithoutHandleFails ==
    lastSend.op \in SendOps => lastSend.result \in {"delivered", "NotConnected"}

\* an end()/unmount was issued while the acquisition of startSession() call i
\* was pending, and the completion handler of i has not yet checked the flag
UnconsumedCancel(i) ==
    /\ begins[i].issued
    /\ begins[i].pc = "awaitOwn"
    /\ \/ begins[i].cancelledByEnd
       \/ unmount.done /\ unmount.lock = begins[i].acq

\* C21: the cancellation flag is true exactly when an end() (or the unmount
\* hook) was issued while an acquisition was pending and that acquisition's
\* completion handler has not yet consumed it; an end() with nothing pending
\* leaves it false and it is false again once the cancelled begin() rejected.
C21_FlagIffUnconsumedCancel ==
    shouldEndRef <=> \E i \in BeginIds : UnconsumedCancel(i)

\* startSession() call k joined the acquisition of call i after the last
\* end()/unmount
JoinedAfterCancel(i, k) ==
    /\ i < k
    /\ ~begins[k].issued
    /\ begins[k].acq = begins[i].acq
    /\ ~begins[k].endSince

\* C26: once endSession() or the unmount hook has set the cancellation flag
\* while an acquisition is pending, no step resets the flag before the
\* completion handler of that acquisition has checked it; a startSession()
\* arriving in between joins the acquisition and leaves the flag set.
C26_CancellationNeverLost ==
    [][\A i \in BeginIds :
          (UnconsumedCancel(i) /\ shouldEndRef)
              => /\ shouldEndRef'
                 /\ Len(begins') > Len(begins)
                       => /\ begins'[Len(begins')].pc = "awaitJoin"
                          /\ begins'[Len(begins')].acq = begins[i].acq]_vars

C26_Witness ==
    \E i, k \in BeginIds :
        /\ UnconsumedCancel(i)
        /\ JoinedAfterCancel(i, k)
        /\ shouldEndRef

\* C25: at most one start request is in flight at any time; the pending
\* marker is only overwritten when it is empty, and it is only cleared by
\* the final step of the startSession() call that issued the acquisition it
\* holds.
C25_OneInFlightOwnClear ==
    /\ [](Cardinality({p \in Promises : startPromise[p] = "pending"}) <= 1)
    /\ [][/\ (lockRef' # lockRef /\ lockRef' # NoHandle) => lockRef = NoHandle
          /\ (lockRef # NoHandle /\ lockRef' = NoHandle)
                => \E i \in BeginIds : /\ begins[i].issued
                                       /\ begins[i].acq = lockRef
                                       /\ begins[i].pc # "done"
                                       /\ begins'[i].pc = "done"]_vars

C25_Witness ==
    \E i, k \in BeginIds :
        /\ i < k
        /\ begins[i].issued /\ begins[i].pc = "done"
        /\ begins[k].issued /\ begins[k].pc = "awaitOwn"
        /\ lockRef = begins[k].acq
        /\ startPromise[lockRef] = "pending"
        /\ \E m \in BeginIds : ~begins[m].issued /\ begins[m].acq = begins[i].acq

\* the value of the last call of setter op the handle received, if any
LastApplied(calls, op) ==
    LET ks == {k \in 1..Len(calls) : calls[k][1] = op}
    IN IF ks = {} THEN "undefined"
       ELSE calls[CHOOSE k \in ks : \A m \in ks : m <= k][2]

\* C22: the most recently requested value of each controlled field is the
\* one applied to the active handle: a volume requested through setVolume()
\* while a handle is installed is applied to that handle, and when a
\* startSession() that issued its own request returns the id, the handle it
\* installed has been given the most recently requested mute and volume.
C22_LatestValueApplied ==
    [][/\ (requestedVolume' # requestedVolume /\ conversationRef # NoHandle)
            => LastApplied(handles'[conversationRef].calls, "setVolume")
                  = requestedVolume'
       /\ \A i \in BeginIds :
            ReturnsId(i)
                => /\ micMuted # "undefined"
                      => LastApplied(handles'[begins[i].acq].calls,
                                     "setMicMuted") = micMuted
                   /\ requestedVolume # "undefined"
                      => LastApplied(handles'[begins[i].acq].calls,
                                     "setVolume") = requestedVolume]_vars

\* isConnected of useScribe
isConnected == status \in {"connected", "transcribing"}

\* C23: a committed-transcript event, with or without timestamps, appends
\* exactly one final segment with the event's text at the end of
\* committedTranscripts, keeps the earlier segments as they were and empties
\* partialTranscript; committedTranscripts only shrinks through
\* clearTranscripts(), which empties both fields; an error event stores its
\* message in error and sets status to "error".
C23_TranscriptAccumulation ==
    [][/\ committedTranscripts' # committedTranscripts
            => \/ /\ Len(committedTranscripts') = Len(committedTranscripts) + 1
                  /\ SubSeq(committedTranscripts', 1, Len(committedTranscripts))
                        = committedTranscripts
                  /\ committedTranscripts'[Len(committedTranscripts')].isFinal
                  /\ partialTranscript' = ""
               \/ /\ lastScribeCall'.op = "clearTranscripts"
                  /\ committedTranscripts' = <<>>
                  /\ partialTranscript' = ""
       /\ \A c \in Connections, text \in Texts :
            (\/ COMMITTED_TRANSCRIPT(c, text)
             \/ COMMITTED_TRANSCRIPT_WITH_TIMESTAMPS(c, text))
                => committedTranscripts'[Len(committedTranscripts')].text = text
       /\ (lastScribeCall' # lastScribeCall
              /\ lastScribeCall'.op = "clearTranscripts")
            => committedTranscripts' = <<>> /\ partialTranscript' = ""
       /\ \A c \in Connections, event \in ErrorEvents,
             message \in ErrorMessages :
            ErrorEvent(c, event, message)
                => error' = message /\ status' = "error"]_vars

C23_Witness ==
    /\ Len(committedTranscripts) = 2
    /\ committedTranscripts[1].text # committedTranscripts[2].text
    /\ ~committedTranscripts[1].words
    /\ committedTranscripts[2].words
    /\ partialTranscript = ""
    /\ error \in ErrorMessages

\* connection c was created and neither closed by the composable nor closed
\* by itself
Unclosed(c) == ~connections[c].closeCalled /\ ~connections[c].closeEmitted

\* C24: connect() with a connection installed creates no connection and
\* leaves status, error and the transcripts as they are; so at most one
\* connection created by the composable is unclosed at any time.
C24_ConnectNoOpWhileInstalled ==
    /\ [](Cardinality({c \in Connections : Unclosed(c)}) <= 1)
    /\ [][(/\ connectionRef # NoConnection
           /\ lastScribeCall' # lastScribeCall
           /\ lastScribeCall'.op = "connect")
            => UNCHANGED <<connectionRef, connections, status, error,
                           partialTranscript, committedTranscripts>>]_vars

\* C27: a CLOSE event of a connection that is not the installed one leaves
\* connectionRef and status of the installed connection as they are.
C27_StaleCloseIsolated ==
    [][\A c \in Connections :
          (/\ ~connections[c].closeEmitted
           /\ connections'[c].closeEmitted
           /\ connectionRef # NoConnection
           /\ connectionRef # c)
              => connectionRef' = connectionRef /\ status' = status]_vars

\* C28: whenever isConnected is true a connection is installed, so
\* sendAudio() and commit() do not fail with "Not connected to Scribe".
C28_ConnectedImpliesInstalled ==
    isConnected => /\ connectionRef # NoConnection
                   /\ ScribeSendOutcome = "sent"

====
